---- MODULE Spec2Model ----
(***************************************************************************)
(* Model of the migration script of injection-tool (src/unnamed/part_000): *)
(* createCall, the resolver of recorded call descriptors; migrate, the     *)
(* sequencer that loads the block log, validates it, checks the sudo key,  *)
(* and replays every extrinsic through sudo.sudoAs; and sendHandler, the   *)
(* status callback of every submission.                                    *)
(*                                                                         *)
(* migrate is an async function: it is cut into one action per stretch of  *)
(* code between two awaits.  A status callback runs between two such       *)
(* stretches, never inside one (single-threaded event loop).               *)
(***************************************************************************)
EXTENDS Integers, Sequences, FiniteSets, TLC

\* ------------------------------------------------------------------ bounds
\* Longest log file, in lines (one block record per line).
MaxBlocks == 3
\* Most status events the node delivers during one run.
MaxEvents == 2
\* Longest log file, in lines, of the runs followed to their end under the
\* assumption that every awaited call returns.
MaxReturning == 2
\* Most call details (the outer one and all nested ones) handed to createCall
\* in one piece.
MaxDetails == 5

\* ------------------------------------------------------------- option types
None == <<>>
Some(x) == <<x>>

\* --------------------------------------------------------- network registry
\* api.registry.findMetaCall: the (section, method) a call index stands for.
findMetaCall(callIndex) ==
  CASE callIndex = "0x0001" -> [section |-> "system",   method |-> "remark"]
    [] callIndex = "0x0003" -> [section |-> "system",   method |-> "setCode"]
    [] callIndex = "0x0005" -> [section |-> "system",   method |-> "killStorage"]
    [] callIndex = "0x0006" -> [section |-> "system",   method |-> "setStorage"]
    [] callIndex = "0x0400" -> [section |-> "balances", method |-> "transfer"]
    [] callIndex = "0x0402" -> [section |-> "balances", method |-> "forceTransfer"]
    [] callIndex = "0x0600" -> [section |-> "staking",  method |-> "bond"]
    [] callIndex = "0x0604" -> [section |-> "staking",  method |-> "validate"]
    [] callIndex = "0x0605" -> [section |-> "staking",  method |-> "nominate"]
    [] callIndex = "0x0608" -> [section |-> "staking",  method |-> "setController"]
    [] callIndex = "0x0800" -> [section |-> "session",  method |-> "setKeys"]
    [] callIndex = "0x1300" -> [section |-> "sudo",     method |-> "sudo"]
    [] callIndex = "0x1800" -> [section |-> "utility",  method |-> "batch"]
    [] callIndex = "0x1e00" -> [section |-> "proxy",    method |-> "proxy"]
    [] callIndex = "0x1e04" -> [section |-> "proxy",    method |-> "anonymous"]

\* api.tx[section][method](...args): the call object the client builds.
Tx(section, method, args) ==
  [section |-> section, method |-> method, args |-> args]

\* The outcome of a computation that may throw.
Ok(call) == [ok |-> TRUE, call |-> call, error |-> ""]
Err(msg) == [ok |-> FALSE, call |-> None, error |-> msg]

\* ----------------------------------------------------------------- resolver
RECURSIVE createCall(_)
RECURSIVE createCalls(_)

\* A map that leaves out the call details createCall does not know.
RECURSIVE createCalls_Dropping(_)
createCalls_Dropping(descriptors) ==
  IF Len(descriptors) = 0 THEN Ok(<<>>)
  ELSE LET first == createCall(Head(descriptors))
           rest  == createCalls_Dropping(Tail(descriptors))
       IN IF ~first.ok THEN rest ELSE Ok(<<first.call>> \o rest.call)

\* A map that yields the calls last to first.
RECURSIVE createCalls_Reversed(_)
createCalls_Reversed(descriptors) ==
  IF Len(descriptors) = 0 THEN Ok(<<>>)
  ELSE LET first == createCall(Head(descriptors)) IN
       IF ~first.ok THEN first
       ELSE LET rest == createCalls_Reversed(Tail(descriptors)) IN
            IF ~rest.ok THEN rest
            ELSE Ok(rest.call \o <<first.call>>)

\* args.calls.map(createCall): left to right, the first throw ends the map.
createCalls(descriptors) ==
  IF Len(descriptors) = 0 THEN Ok(<<>>)
  ELSE LET first == createCall(Head(descriptors)) IN
       IF ~first.ok THEN first
       ELSE LET rest == createCalls(Tail(descriptors)) IN
            IF ~rest.ok THEN rest
            ELSE Ok(<<first.call>> \o rest.call)

createCall(details) ==
  LET args    == details.args
      meta    == findMetaCall(details.callIndex)
      section == meta.section
      method  == meta.method
  IN CASE method = "killStorage"   -> Ok(Tx(section, method, <<args.keys>>))
       [] method = "setStorage"    -> Ok(Tx(section, method, <<args.items>>))
       [] method = "bond"          ->
            Ok(Tx(section, method, <<args.controller, args.value, args.payee>>))
       [] method = "nominate"      -> Ok(Tx(section, method, <<args.targets>>))
       [] method = "setController" -> Ok(Tx(section, method, <<args.controller>>))
       [] method = "setKeys"       -> Ok(Tx(section, method, <<args.keys, args.proof>>))
       [] method = "validate"      -> Ok(Tx(section, method, <<args.prefs>>))
       [] method = "forceTransfer" ->
            Ok(Tx(section, method, <<args.source, args.dest, args.value>>))
       [] method = "transfer"      -> Ok(Tx(section, method, <<args.dest, args.value>>))
       [] method = "proxy"         ->
            LET call == createCall(args.call) IN
            IF ~call.ok THEN call
            ELSE Ok(Tx(section, method, <<args.real, args.force_proxy_type, call.call>>))
       [] method = "sudo"          ->
            LET call == createCall(args.call) IN
            IF ~call.ok THEN call
            ELSE Ok(Tx(section, method, <<call.call>>))
       [] method = "batch"         ->
            LET calls == createCalls(args.calls) IN
            IF ~calls.ok THEN calls
            ELSE Ok(Tx(section, method, <<calls.call>>))
       [] method = "anonymous"     ->
            Ok(Tx(section, method, <<args.proxy_type, args.index>>))
       [] OTHER                    -> Err("UnknownCallError")

\* ------------------------------------------------------------ rewrap policy
\* The extrinsic's method "module.txType" is held as the pair of its two
\* dot-separated parts; method.split('.') yields the two parts.
split(method) == [module |-> method[1], txType |-> method[2]]

\* ./consts IgnoreMethods: the methods the sequencer never replays.
IgnoreMethods == { <<"timestamp", "set">>, <<"finalityTracker", "finalHint">> }

\* An empty ignore list.
IsIgnored_Never(method) == FALSE

\* IgnoreMethods.includes(method)
IsIgnored(method) == method \in IgnoreMethods

\* No extrinsic taken for a runtime upgrade.
IsRuntimeUpgrade_Never(txType, args) == FALSE

\* txType === "sudoUncheckedWeight" && args[0].args.code
IsRuntimeUpgrade(txType, args) ==
  /\ txType = "sudoUncheckedWeight"
  /\ "code" \in DOMAIN args[1].args

IsUnsigned(txType) == txType = "claimAttest"

\* "Construct the proposal": switch (txType).
Proposal(module, txType, args) ==
  CASE txType = "batch" ->
         LET calls == createCalls(args[1]) IN
         IF ~calls.ok THEN calls ELSE Ok(Tx(module, txType, <<calls.call>>))
    [] txType = "sudo" ->
         LET call == createCall(args[1]) IN
         IF ~call.ok THEN call ELSE Ok(Tx(module, txType, <<call.call>>))
    [] txType = "sudoUncheckedWeight" ->
         LET call == createCall(args[1]) IN
         IF ~call.ok THEN call ELSE Ok(Tx(module, txType, <<call.call, args[2]>>))
    [] txType = "asMulti" ->
         LET call == createCall(args[4]) IN
         IF ~call.ok THEN call
         ELSE Ok(Tx(module, txType, <<args[1], args[2], args[3], call.call>>))
    [] OTHER -> Ok(Tx(module, txType, args))

\* The call details a map of createCall over descriptors hands to createCall:
\* one after the other, up to the first that throws.
RECURSIVE Mapped(_)
Mapped(descriptors) ==
  IF Len(descriptors) = 0 THEN <<>>
  ELSE IF ~createCall(Head(descriptors)).ok THEN << Head(descriptors) >>
  ELSE << Head(descriptors) >> \o Mapped(Tail(descriptors))

\* The call details migrate hands to createCall while it constructs the
\* proposal of an extrinsic, in order.
ResolverCalls(txType, args) ==
  CASE txType = "batch"               -> Mapped(args[1])
    [] txType = "sudo"                -> << args[1] >>
    [] txType = "sudoUncheckedWeight" -> << args[1] >>
    [] txType = "asMulti"             -> << args[4] >>
    [] OTHER                          -> <<>>

\* The proposal handed to signAndSend as it is, with no sudoAs around it.
SudoAs_Bare(signer, proposal) == proposal

\* api.tx.sudo.sudoAs(signer, proposal)
SudoAs(signer, proposal) == Tx("sudo", "sudoAs", <<signer, proposal>>)

\* The starting nonce used again for every extrinsic.
currentNonce_Reused(start, idx) == start

\* Number(startingNonce) + index
currentNonce(start, idx) == start + idx

\* The gate with the negation of dry lost.
NotSudoSigner_DryOnly(isDry, address, sudo) == isDry /\ address # sudo

\* !dry && (mySigner.address !== sudo.toString())
NotSudoSigner(isDry, address, sudo) == ~isDry /\ address # sudo

\* The submission calls left unguarded.
Submits_Always(isDry) == TRUE

\* The guard of both submission calls: if (!dry).
Submits(isDry) == ~isDry

\* The handler unsubscribing as soon as the extrinsic is in a block.
isFinalized_OrInBlock(status) == status \in {"inBlock", "finalized"}

\* status.isFinalized
isFinalized(status) == status = "finalized"

\* --------------------------------------------------------------- log loading
RECURSIVE Insert(_, _)
\* Where a stable ascending sort puts b among the already sorted s.
Insert(b, s) ==
  IF Len(s) = 0 THEN <<b>>
  ELSE IF b.number < Head(s).number THEN <<b>> \o s
  ELSE <<Head(s)>> \o Insert(b, Tail(s))

RECURSIVE SortFrom(_, _)
SortFrom(lines, acc) ==
  IF Len(lines) = 0 THEN acc
  ELSE SortFrom(Tail(lines), Insert(Head(lines), acc))

\* The lines kept in file order.
SortBlocks_Unsorted(lines) == lines

\* .sort((a, b) => a.number - b.number)
SortBlocks(lines) == SortFrom(lines, <<>>)

RECURSIVE EnsureCompleteFrom(_, _)
\* The while loop of the completeness check, from count on: 0 when the loop
\* ends without a throw, else the count the error message cites.
EnsureCompleteFrom(bs, count) ==
  IF ~(count < Len(bs)) THEN 0
  ELSE IF bs[count].number # count THEN count
  ELSE EnsureCompleteFrom(bs, count + 1)

EnsureComplete(bs) == EnsureCompleteFrom(bs, 1)

\* ./helpers initializeSigner: the key pair a secret URI unlocks.
initializeSigner(secret) ==
  IF secret = "//Sudo" THEN [address |-> "sudoer"] ELSE [address |-> "mallory"]

\* ------------------------------------------------------------------ inputs
\* Recorded call descriptors.
dTransfer   == [callIndex |-> "0x0400", args |-> [dest |-> "carol", value |-> "5"]]
dBond       == [callIndex |-> "0x0600",
                args |-> [controller |-> "bob", value |-> "7", payee |-> "Staked"]]
dSudoBond   == [callIndex |-> "0x1300", args |-> [call |-> dBond]]
dSetStorage == [callIndex |-> "0x0006", args |-> [items |-> "0xkv"]]
dSetCode    == [callIndex |-> "0x0003", args |-> [code |-> "0xwasm"]]
dRemark     == [callIndex |-> "0x0001", args |-> [remark |-> "0xhi"]]

\* Call details of the methods that take other call details.
dSudo(call)   == [callIndex |-> "0x1300", args |-> [call |-> call]]
dProxy(call)  == [callIndex |-> "0x1e00",
                  args |-> [real |-> "dave", force_proxy_type |-> "Any", call |-> call]]
dBatch(calls) == [callIndex |-> "0x1800", args |-> [calls |-> calls]]

\* Call details of every other method the metadata knows, one of each.
Plain ==
  { dTransfer, dBond, dSetStorage, dSetCode, dRemark,
    [callIndex |-> "0x0005", args |-> [keys |-> "0xk"]],
    [callIndex |-> "0x0402",
     args |-> [source |-> "alice", dest |-> "bob", value |-> "9"]],
    [callIndex |-> "0x0604", args |-> [prefs |-> "0xprefs"]],
    [callIndex |-> "0x0605", args |-> [targets |-> "carol"]],
    [callIndex |-> "0x0608", args |-> [controller |-> "dave"]],
    [callIndex |-> "0x0800", args |-> [keys |-> "0xkeys", proof |-> "0x"]],
    [callIndex |-> "0x1e04", args |-> [proxy_type |-> "Any", index |-> "0"]] }

\* The call details nested ones are drawn from.
Nestable == { dTransfer, dBond, dRemark }

\* All call details made of exactly n call details, nested ones counted;
\* DetailsLists(n): the non-empty lists of call details that count n together.
RECURSIVE Details(_)
RECURSIVE DetailsLists(_)
Details(n) ==
  IF n = 1 THEN Nestable \cup { dBatch(<<>>) }
  ELSE { dSudo(d) : d \in Details(n - 1) }
       \cup { dProxy(d) : d \in Details(n - 1) }
       \cup { dBatch(l) : l \in DetailsLists(n - 1) }
DetailsLists(n) ==
  UNION { { <<d>> \o l : d \in Details(k),
                         l \in (IF k = n THEN { <<>> } ELSE DetailsLists(n - k)) }
          : k \in 1..n }

Descriptors == Plain \cup UNION { Details(n) : n \in 1..MaxDetails }

\* Recorded extrinsics; signature is None for an extrinsic recorded unsigned.
Extrinsic(method, args, hash, signature) ==
  [method |-> method, args |-> args, hash |-> hash, signature |-> signature]

Signed(signer) == Some([signer |-> signer])

xTransfer  == Extrinsic(<<"balances", "transfer">>, <<"bob", "10">>, "0xa1", Signed("alice"))
xAttest    == Extrinsic(<<"claims", "claimAttest">>, <<"0xeth", "0xsig", "stmt">>, "0xa2", None)
xTimestamp == Extrinsic(<<"timestamp", "set">>, <<"1590000000">>, "0xb1", None)
xUpgrade   == Extrinsic(<<"sudo", "sudoUncheckedWeight">>, <<dSetCode, "0">>, "0xb2",
                        Signed("root"))
xBatch     == Extrinsic(<<"utility", "batch">>, << <<dTransfer, dSudoBond>> >>, "0xc1",
                        Signed("bob"))
xWeighted  == Extrinsic(<<"sudo", "sudoUncheckedWeight">>, <<dSetStorage, "0">>, "0xc2",
                        Signed("root"))
xRemark    == Extrinsic(<<"sudo", "sudo">>, <<dRemark>>, "0xc3", Signed("root"))
xMulti     == Extrinsic(<<"multisig", "asMulti">>, <<"2", "others", "timepoint", dTransfer>>,
                        "0xd1", Signed("carol"))
xBare      == Extrinsic(<<"balances", "transfer">>, <<"dave", "1">>, "0xd3", None)

\* The exported chain history: the extrinsics of blocks 1, 2, 3 and 4.
History ==
  << <<xTransfer, xAttest>>,
     <<xTimestamp, xUpgrade>>,
     <<xWeighted, xRemark>>,
     <<xMulti, xBatch, xBare>> >>

Block(n) == [number |-> n, extrinsics |-> History[n]]

\* A log file: up to MaxBlocks lines, each the record of a block of the
\* history, in any order and with or without repetition.
Lines == { Block(n) : n \in 1..Len(History) }
Logs  == UNION { [1..n -> Lines] : n \in 0..MaxBlocks }

Suris       == { "//Sudo", "//Mallory" }
\* The state of the target chain: its sudo key, and the nonce of every
\* account (the sudo account has sent extrinsics before, the other has not).
ChainSudoKey == "sudoer"
AccountNonce(address) == IF address = ChainSudoKey THEN 100 ELSE 0
\* The status types the node reports for a watched extrinsic; after one of
\* TerminalStatuses it reports nothing more for that extrinsic.
Statuses         == { "inBlock", "finalized", "dropped" }
TerminalStatuses == { "finalized", "dropped" }

\* ------------------------------------------------------------------- state
VARIABLES
  dbFile,          \* the lines of the file at dbPath
  dry, ensureComplete, trickle, suri,   \* the options
  pc,              \* where migrate stands
  blocks,          \* the parsed, sorted log
  mySigner,        \* address of the derived signer, None before it is derived
  startingNonce, index, wait,
  bi, ti,          \* the block and the extrinsic the two for-loops are at
  submissions,     \* every send / signAndSend call made, with its subscription
  trace,           \* what was decided for every extrinsic looked at, in order
  slept,           \* the blocks after which migrate slept
  error,           \* the error migrate threw
  nEvents,         \* status events delivered so far
  resolverCalls,   \* every createCall(...) call migrate made, in order
  proposals,       \* every proposal migrate constructed, in order
  descriptor,      \* createCall on its own: the call details handed to it
  resolution       \* createCall on its own: what it gave, None before the call

vars == << dbFile, dry, ensureComplete, trickle, suri, pc, blocks, mySigner,
           startingNonce, index, wait, bi, ti, submissions, trace, slept,
           error, nEvents, resolverCalls, proposals, descriptor, resolution >>

options == << dbFile, dry, ensureComplete, trickle, suri >>

\* What the construction of proposals leaves behind.
constructed == << resolverCalls, proposals >>

\* createCall called on its own, outside migrate.
resolver == << descriptor, resolution >>

NoError == [kind |-> "none", cite |-> 0]

Init ==
  /\ dbFile \in Logs
  /\ dry \in BOOLEAN
  /\ ensureComplete \in BOOLEAN
  /\ trickle \in BOOLEAN
  /\ suri \in Suris
  /\ pc = "Loading"
  /\ blocks = <<>>
  /\ mySigner = None
  /\ startingNonce = 0
  /\ index = 0
  /\ wait = FALSE
  /\ bi = 1
  /\ ti = 1
  /\ submissions = <<>>
  /\ trace = <<>>
  /\ slept = <<>>
  /\ error = NoError
  /\ nEvents = 0
  /\ resolverCalls = <<>>
  /\ proposals = <<>>
  /\ descriptor = None
  /\ resolution = None

\* throw new Error(...): migrate's promise rejects, nothing of it runs again.
Abort(kind, cite) ==
  /\ pc' = "Aborted"
  /\ error' = [kind |-> kind, cite |-> cite]

\* ---------------------------------------------------------------- migrate
\* Read the file, parse and sort it.
Load ==
  /\ pc = "Loading"
  /\ blocks' = SortBlocks(dbFile)
  /\ pc' = IF ensureComplete THEN "Validating" ELSE "Authorizing"
  /\ UNCHANGED << options, resolver, constructed,
                  mySigner, startingNonce, index, wait, bi, ti,
                  submissions, trace, slept, error, nEvents >>

\* if (ensureComplete) { ... }
Validate ==
  /\ pc = "Validating"
  /\ LET missing == EnsureComplete(blocks) IN
       IF missing # 0
       THEN Abort("GapError", missing)
       ELSE pc' = "Authorizing" /\ UNCHANGED error
  /\ UNCHANGED << options, resolver, constructed,
                  blocks, mySigner, startingNonce, index, wait, bi, ti,
                  submissions, trace, slept, nEvents >>

\* Derive the signer, await the sudo key, compare.
Authorize ==
  /\ pc = "Authorizing"
  /\ LET signer == initializeSigner(suri) IN
       /\ mySigner' = Some(signer.address)
       /\ IF NotSudoSigner(dry, signer.address, ChainSudoKey)
          THEN Abort("AuthorizationError", 0)
          ELSE pc' = "QueryingNonce" /\ UNCHANGED error
  /\ UNCHANGED << options, resolver, constructed,
                  blocks, startingNonce, index, wait, bi, ti,
                  submissions, trace, slept, nEvents >>

\* await api.query.system.account(...); let index = 0; let wait = false.
QueryNonce ==
  /\ pc = "QueryingNonce"
  /\ startingNonce' = AccountNonce(mySigner[1])
  /\ index' = 0
  /\ wait' = FALSE
  /\ bi' = 1
  /\ ti' = 1
  /\ pc' = "Iterating"
  /\ UNCHANGED << options, resolver, constructed,
                  blocks, mySigner, submissions, trace, slept, error,
                  nEvents >>

\* The for-loops stand at an extrinsic that is still to be looked at.
AtExtrinsic ==
  /\ pc = "Iterating"
  /\ bi <= Len(blocks)
  /\ ti <= Len(blocks[bi].extrinsics)

extrinsic == blocks[bi].extrinsics[ti]
module    == split(extrinsic.method).module
txType    == split(extrinsic.method).txType

Decided(path, nonce) ==
  [number |-> blocks[bi].number, bi |-> bi, ti |-> ti, hash |-> extrinsic.hash,
   path |-> path, nonce |-> nonce]

\* A submission call and the subscription it opens.  nonceOpt is the nonce
\* option handed to the client (None: the client picks the nonce itself from
\* what the node reports); nonceStr holds the nonce the sequencer computed.
\* unsub is the const the awaited call's result is bound to: None until the
\* call returns, then the handle that closes the subscription it names.
\* closedBy holds the submissions whose callback closed this subscription,
\* unbound counts the calls of an unsub that held no handle.
Submission(path, call, signedBy, nonceOpt, nonceStr) ==
  [path |-> path, call |-> call, signedBy |-> signedBy, nonceOpt |-> nonceOpt,
   nonceStr |-> nonceStr, hash |-> extrinsic.hash,
   number |-> blocks[bi].number, bi |-> bi, ti |-> ti,
   state |-> "calling", status |-> "none", seen |-> {}, unsubCalls |-> 0,
   unsubAt |-> {}, unsub |-> None, closedBy |-> {}, unbound |-> 0]

\* if (IgnoreMethods.includes(method)) continue;
SkipIgnored ==
  /\ AtExtrinsic
  /\ IsIgnored(extrinsic.method)
  /\ trace' = Append(trace, Decided("ignored", None))
  /\ ti' = ti + 1
  /\ UNCHANGED << options, resolver, constructed,
                  pc, blocks, mySigner, startingNonce, index, wait, bi,
                  submissions, slept, error, nEvents >>

\* Skipping runtime upgrade.
SkipRuntimeUpgrade ==
  /\ AtExtrinsic
  /\ ~IsIgnored(extrinsic.method)
  /\ IsRuntimeUpgrade(txType, extrinsic.args)
  /\ trace' = Append(trace, Decided("upgrade", None))
  /\ ti' = ti + 1
  /\ UNCHANGED << options, resolver, constructed,
                  pc, blocks, mySigner, startingNonce, index, wait, bi,
                  submissions, slept, error, nEvents >>

AtReplayed ==
  /\ AtExtrinsic
  /\ ~IsIgnored(extrinsic.method)
  /\ ~IsRuntimeUpgrade(txType, extrinsic.args)

\* claimAttest in a dry run: "Stubbing unsigned transaction."
UnsignedStub ==
  /\ AtReplayed
  /\ IsUnsigned(txType)
  /\ ~Submits(dry)
  /\ trace' = Append(trace, Decided("stub", None))
  /\ ti' = ti + 1
  /\ UNCHANGED << options, resolver, constructed,
                  pc, blocks, mySigner, startingNonce, index, wait, bi,
                  submissions, slept, error, nEvents >>

\* claimAttest: api.tx[module][txType](...args).send(callback), up to the await.
UnsignedSend ==
  /\ AtReplayed
  /\ IsUnsigned(txType)
  /\ Submits(dry)
  /\ trace' = Append(trace, Decided("unsigned", None))
  /\ submissions' = Append(submissions,
       Submission("unsigned", Tx(module, txType, extrinsic.args), None, None, None))
  /\ pc' = "Sending"
  /\ UNCHANGED << options, resolver, constructed,
                  blocks, mySigner, startingNonce, index, wait, bi, ti,
                  slept, error, nEvents >>

\* The extrinsic without a signature logged and passed over.
SignedNoSignature_Skipped ==
  /\ AtReplayed
  /\ ~IsUnsigned(txType)
  /\ extrinsic.signature = None
  /\ trace' = Append(trace, Decided("nosignature", None))
  /\ ti' = ti + 1
  /\ UNCHANGED << options, resolver, constructed, pc, blocks, mySigner,
                  startingNonce, index, wait, bi, submissions, slept, error,
                  nEvents >>

\* const { signer } = signature, with no signature recorded: a TypeError.
SignedNoSignature ==
  /\ AtReplayed
  /\ ~IsUnsigned(txType)
  /\ extrinsic.signature = None
  /\ trace' = Append(trace, Decided("nosignature", None))
  /\ Abort("TypeError", 0)
  /\ UNCHANGED << options, resolver, constructed,
                  blocks, mySigner, startingNonce, index, wait, bi, ti,
                  submissions, slept, nEvents >>

AtSigned ==
  /\ AtReplayed
  /\ ~IsUnsigned(txType)
  /\ extrinsic.signature # None

signer   == extrinsic.signature[1].signer
proposal == Proposal(module, txType, extrinsic.args)

\* The createCall calls made for the extrinsic at hand, and its proposal.
Called ==
  LET details == ResolverCalls(txType, extrinsic.args) IN
  [k \in 1..Len(details) |->
     [bi |-> bi, ti |-> ti, hash |-> extrinsic.hash, details |-> details[k]]]
Constructed ==
  [bi |-> bi, ti |-> ti, hash |-> extrinsic.hash, proposal |-> proposal.call]

\* createCall throws while the proposal is constructed.
SignedUnknownCall ==
  /\ AtSigned
  /\ ~proposal.ok
  /\ trace' = Append(trace, Decided("unknown", Some(currentNonce(startingNonce, index))))
  /\ resolverCalls' = resolverCalls \o Called
  /\ UNCHANGED proposals
  /\ Abort(proposal.error, 0)
  /\ UNCHANGED << options, resolver, blocks, mySigner, startingNonce, index, wait, bi, ti,
                  submissions, slept, nEvents >>

\* A dry run that constructs no proposal and so never meets a call createCall
\* does not know.
SignedDry_Unresolved ==
  /\ AtSigned
  /\ ~Submits(dry)
  /\ trace' = Append(trace, Decided("signed", Some(currentNonce(startingNonce, index))))
  /\ index' = index + 1
  /\ ti' = ti + 1
  /\ UNCHANGED << options, resolver, constructed, pc, blocks, mySigner,
                  startingNonce, wait, bi, submissions, slept, error, nEvents >>

\* The signed path of a dry run: the proposal is constructed, index++.
SignedDry ==
  /\ AtSigned
  /\ proposal.ok
  /\ ~Submits(dry)
  /\ trace' = Append(trace, Decided("signed", Some(currentNonce(startingNonce, index))))
  /\ resolverCalls' = resolverCalls \o Called
  /\ proposals' = Append(proposals, Constructed)
  /\ index' = index + 1
  /\ ti' = ti + 1
  /\ UNCHANGED << options, resolver, pc, blocks, mySigner, startingNonce, wait, bi,
                  submissions, slept, error, nEvents >>

\* api.tx.sudo.sudoAs(signer, proposal).signAndSend(mySigner, callback), up
\* to the await.  No options object is passed.
SignedSend ==
  /\ AtSigned
  /\ proposal.ok
  /\ Submits(dry)
  /\ trace' = Append(trace, Decided("signed", Some(currentNonce(startingNonce, index))))
  /\ resolverCalls' = resolverCalls \o Called
  /\ proposals' = Append(proposals, Constructed)
  /\ submissions' = Append(submissions,
       Submission("signed", SudoAs(signer, proposal.call), mySigner, None,
                  Some(currentNonce(startingNonce, index))))
  /\ pc' = "Sending"
  /\ UNCHANGED << options, resolver, blocks, mySigner, startingNonce, index, wait, bi, ti,
                  slept, error, nEvents >>

\* The rejection logged and the loop going on.
AfterReject_Continue == "Iterating"

\* What migrate does when the awaited submission call rejects: the unsigned
\* path catches and rethrows, the signed path lets the rejection through.
AfterReject == "Aborted"

\* The awaited call resolves with the unsubscribe handle:
\* if (trickle) wait = true; and index++ on the signed path.
SendReturn ==
  /\ pc = "Sending"
  /\ LET i == Len(submissions) IN
       /\ submissions' = [submissions EXCEPT ![i].state = "subscribed",
                                             ![i].unsub = Some(i)]
       /\ index' = IF submissions[i].path = "signed" THEN index + 1 ELSE index
  /\ wait' = IF trickle THEN TRUE ELSE wait
  /\ ti' = ti + 1
  /\ pc' = "Iterating"
  /\ UNCHANGED << options, resolver, constructed,
                  blocks, mySigner, startingNonce, bi, trace, slept,
                  error, nEvents >>

\* The rejected submission made again: the loops stay where they are.
SendReject_Retry ==
  /\ pc = "Sending"
  /\ LET i == Len(submissions) IN
       submissions' = [submissions EXCEPT ![i].state = "rejected"]
  /\ pc' = "Iterating"
  /\ UNCHANGED << options, resolver, constructed, blocks, mySigner, startingNonce,
                  index, wait, bi, ti, trace, slept, error, nEvents >>

\* The awaited call rejects: the node refuses the extrinsic.
SendReject ==
  /\ pc = "Sending"
  /\ LET i == Len(submissions) IN
       submissions' = [submissions EXCEPT ![i].state = "rejected"]
  /\ pc' = AfterReject
  /\ error' = [kind |-> "SubmissionError", cite |-> 0]
  /\ ti' = IF AfterReject = "Aborted" THEN ti ELSE ti + 1
  /\ UNCHANGED << options, resolver, constructed,
                  blocks, mySigner, startingNonce, index, wait, bi,
                  trace, slept, nEvents >>

\* The next block begun only once every submission made is finalized.
EndBlock_AwaitFinalized ==
  /\ pc = "Iterating"
  /\ bi <= Len(blocks)
  /\ ti > Len(blocks[bi].extrinsics)
  /\ \A i \in 1..Len(submissions) : submissions[i].status = "finalized"
  /\ bi' = bi + 1
  /\ ti' = 1
  /\ UNCHANGED << options, resolver, constructed, pc, blocks, mySigner,
                  startingNonce, index, wait, submissions, trace, slept, error,
                  nEvents >>

\* The inner loop is through: if (wait) await sleep(6000), then the next block.
EndBlock ==
  /\ pc = "Iterating"
  /\ bi <= Len(blocks)
  /\ ti > Len(blocks[bi].extrinsics)
  /\ IF wait
     THEN /\ pc' = "Draining"
          /\ slept' = Append(slept, bi)
          /\ UNCHANGED << bi, ti >>
     ELSE /\ bi' = bi + 1
          /\ ti' = 1
          /\ UNCHANGED << pc, slept >>
  /\ UNCHANGED << options, resolver, constructed,
                  blocks, mySigner, startingNonce, index, wait,
                  submissions, trace, error, nEvents >>

\* sleep(6000) is over.
Wake ==
  /\ pc = "Draining"
  /\ bi' = bi + 1
  /\ ti' = 1
  /\ pc' = "Iterating"
  /\ UNCHANGED << options, resolver, constructed,
                  blocks, mySigner, startingNonce, index, wait,
                  submissions, trace, slept, error, nEvents >>

\* The outer loop is through: migrate returns.
Finish ==
  /\ pc = "Iterating"
  /\ bi > Len(blocks)
  /\ pc' = "Done"
  /\ UNCHANGED << options, resolver, constructed,
                  blocks, mySigner, startingNonce, index, wait, bi, ti,
                  submissions, trace, slept, error, nEvents >>

\* ------------------------------------------------------------ sendHandler
\* One unsub shared by all submissions: the callback reads the one of the
\* submission made last.
UnsubOf_Latest(i) == Len(submissions)

\* (result) => sendHandler(result, unsub, nonceStr, hash): the unsub the
\* callback of submission i reads is the const of the block the callback was
\* written in, the one its own submission call is bound to.
UnsubOf(i) == i

\* The node reports a status for the extrinsic of submission i and the
\* callback registered with that submission runs sendHandler.  The node
\* reports on a subscription once it is set up, which is when the submission
\* call resolves, until the client unsubscribes or a terminal status is out;
\* it reports a status when the status changes.
sendHandler(i, status) ==
  /\ submissions[i].state = "subscribed"
  /\ submissions[i].status \notin TerminalStatuses
  /\ status # submissions[i].status
  /\ nEvents < MaxEvents
  /\ nEvents' = nEvents + 1
  /\ submissions' =
       LET unsub == submissions[UnsubOf(i)].unsub IN
       IF isFinalized(status) /\ unsub # None
       THEN [submissions EXCEPT ![i].status = status,
                                ![i].seen = @ \cup {status},
                                ![i].unsubCalls = @ + 1,
                                ![i].unsubAt = @ \cup {status},
                                ![unsub[1]].closedBy = @ \cup {i},
                                ![unsub[1]].state = "unsubscribed"]
       ELSE IF isFinalized(status)
       THEN [submissions EXCEPT ![i].status = status,
                                ![i].seen = @ \cup {status},
                                ![i].unbound = @ + 1]
       ELSE [submissions EXCEPT ![i].status = status,
                                ![i].seen = @ \cup {status}]
  /\ UNCHANGED << options, resolver, constructed,
                  pc, blocks, mySigner, startingNonce, index, wait, bi,
                  ti, trace, slept, error >>

StatusEvent ==
  \E i \in 1..Len(submissions) : \E status \in Statuses : sendHandler(i, status)

Next ==
  \/ Load
  \/ Validate
  \/ Authorize
  \/ QueryNonce
  \/ SkipIgnored
  \/ SkipRuntimeUpgrade
  \/ UnsignedStub
  \/ UnsignedSend
  \/ SignedNoSignature
  \/ SignedUnknownCall
  \/ SignedDry
  \/ SignedSend
  \/ SendReturn
  \/ SendReject
  \/ EndBlock
  \/ Wake
  \/ Finish
  \/ StatusEvent

Spec == Init /\ [][Next]_vars

\* The steps of migrate itself: what runs when an awaited call returns.
Migrate ==
  \/ Load
  \/ Validate
  \/ Authorize
  \/ QueryNonce
  \/ SkipIgnored
  \/ SkipRuntimeUpgrade
  \/ UnsignedStub
  \/ UnsignedSend
  \/ SignedNoSignature
  \/ SignedUnknownCall
  \/ SignedDry
  \/ SignedSend
  \/ SendReturn
  \/ SendReject
  \/ EndBlock
  \/ Wake
  \/ Finish

\* Every call migrate awaits (the file read, the queries, the submission
\* calls, the sleep) returns or rejects, and migrate then runs on.  Nothing
\* is assumed of the statuses the node reports.
InitReturning == Init /\ Len(dbFile) <= MaxReturning

SpecReturning == InitReturning /\ [][Next]_vars /\ WF_vars(Migrate)

\* ---------------------------------------------------- createCall on its own
\* createCall handed some call details, with migrate not running.
InitResolve ==
  /\ descriptor \in Descriptors
  /\ resolution = None
  /\ dbFile = <<>>
  /\ dry = TRUE
  /\ ensureComplete = FALSE
  /\ trickle = FALSE
  /\ suri = "//Sudo"
  /\ pc = "Idle"
  /\ blocks = <<>>
  /\ mySigner = None
  /\ startingNonce = 0
  /\ index = 0
  /\ wait = FALSE
  /\ bi = 1
  /\ ti = 1
  /\ submissions = <<>>
  /\ trace = <<>>
  /\ slept = <<>>
  /\ error = NoError
  /\ nEvents = 0
  /\ resolverCalls = <<>>
  /\ proposals = <<>>

Resolve ==
  /\ resolution = None
  /\ resolution' = Some(createCall(descriptor))
  /\ UNCHANGED << options, constructed, descriptor, pc, blocks, mySigner,
                  startingNonce, index, wait, bi, ti, submissions, trace, slept,
                  error, nEvents >>

NextResolve == Resolve

SpecResolve == InitResolve /\ [][NextResolve]_vars

\* ------------------------------------------------------------ properties
Numbers(bs) == { bs[k].number : k \in 1..Len(bs) }

\* The block numbers are exactly 1, 2, ..., N in this order.
Contiguous(bs) == \A k \in 1..Len(bs) : bs[k].number = k

\* The least block number from 1 on that no block carries.
FirstMissing(bs) ==
  CHOOSE n \in 1..(Len(bs) + 1) :
    /\ n \notin Numbers(bs)
    /\ \A m \in 1..(n - 1) : m \in Numbers(bs)

Validated == pc \notin {"Loading", "Validating"}

\* C1: with ensureComplete, validation passes exactly when the sorted block
\* numbers are 1, 2, ..., N; otherwise the run is aborted with a gap error
\* that cites the first missing block number, and nothing was submitted.
C1_CompletenessCheck ==
  (ensureComplete /\ Validated) =>
    IF Contiguous(blocks)
    THEN error.kind # "GapError"
    ELSE /\ pc = "Aborted"
         /\ error = [kind |-> "GapError", cite |-> FirstMissing(blocks)]
         /\ submissions = <<>>

Authorized == mySigner # None

Mismatch == Authorized /\ mySigner[1] # ChainSudoKey

\* C2: a signer that is not the chain's sudo key aborts a run that is not
\* dry, with no submission made; in a dry run the mismatch does not abort.
C2_AuthorizationGate ==
  /\ (Mismatch /\ ~dry) =>
       /\ pc = "Aborted"
       /\ error.kind = "AuthorizationError"
       /\ submissions = <<>>
  /\ (Mismatch /\ dry) =>
       /\ error.kind # "AuthorizationError"
       /\ pc # "Authorizing"
  /\ (Authorized /\ ~Mismatch) => error.kind # "AuthorizationError"

\* A run that is not dry stopped at the gate, with extrinsics left to replay.
C2_Witness ==
  /\ Mismatch
  /\ ~dry
  /\ pc = "Aborted"
  /\ error.kind = "AuthorizationError"
  /\ Len(blocks) > 0

IsSignedSubmission(s) == s.path = "signed"
IsSignedDecision(d)   == d.path = "signed"

SignedSubmissions == SelectSeq(submissions, IsSignedSubmission)
SignedDecisions   == SelectSeq(trace, IsSignedDecision)

\* C3: every signed submission hands the client the nonce the sequencer
\* computed, startingNonce + index, as the nonce to use.
C3_ExplicitNonce ==
  \A k \in 1..Len(SignedSubmissions) :
    SignedSubmissions[k].nonceOpt = Some(startingNonce + k - 1)

Paths(seq) == [k \in 1..Len(seq) |-> seq[k].path]

C5_DryNoSubmission == dry => submissions = <<>>

\* A dry run that went through a signed and an unsigned extrinsic to the end.
C5_Witness ==
  /\ dry
  /\ pc = "Done"
  /\ \E k \in 1..Len(trace) : trace[k].path = "signed"
  /\ \E k \in 1..Len(trace) : trace[k].path = "stub"

\* Extrinsics are left that the loops have not looked at yet.
WorkLeft ==
  /\ bi <= Len(blocks)
  /\ (ti < Len(blocks[bi].extrinsics) \/ bi < Len(blocks))

\* C6: an error thrown aborts the sequencer, and an aborted sequencer stays
\* aborted and makes no further submission call.
C6_AbortHalts ==
  /\ [](error.kind # "none" => pc = "Aborted")
  /\ [][pc = "Aborted" =>
          /\ pc' = "Aborted"
          /\ Len(submissions') = Len(submissions)
          /\ trace' = trace]_vars

\* A run aborted on a rejected submission, after an accepted one and with
\* extrinsics still to replay.
C6_Witness ==
  /\ pc = "Aborted"
  /\ error.kind = "SubmissionError"
  /\ Len(submissions) >= 2
  /\ WorkLeft

\* The blocks the outer loop has reached so far, in the order it reached them.
Iterated == pc \in {"Iterating", "Sending", "Draining", "Done"} \/
            (pc = "Aborted" /\ error.kind \notin {"GapError", "AuthorizationError"})

Reached == IF Iterated THEN SubSeq(blocks, 1, IF bi <= Len(blocks) THEN bi ELSE Len(blocks))
           ELSE <<>>

StrictlyIncreasing(bs) ==
  \A i, j \in 1..Len(bs) : i < j => bs[i].number < bs[j].number

NonDecreasing(bs) ==
  \A i, j \in 1..Len(bs) : i < j => bs[i].number <= bs[j].number

DistinctNumbers(bs) ==
  \A i, j \in 1..Len(bs) : i # j => bs[i].number # bs[j].number

Before(a, b) == a.bi < b.bi \/ (a.bi = b.bi /\ a.ti < b.ti)

\* What was looked at and what was submitted follow the recorded order of the
\* sorted log, with nothing looked at twice and nothing passed over.
RecordedOrder ==
  /\ \A k \in 1..Len(trace) :
       /\ trace[k].bi \in 1..Len(blocks)
       /\ trace[k].ti \in 1..Len(blocks[trace[k].bi].extrinsics)
       /\ trace[k].hash = blocks[trace[k].bi].extrinsics[trace[k].ti].hash
       /\ trace[k].number = blocks[trace[k].bi].number
       /\ k > 1 =>
            \/ /\ trace[k].bi = trace[k - 1].bi
               /\ trace[k].ti = trace[k - 1].ti + 1
            \/ /\ trace[k].bi > trace[k - 1].bi
               /\ trace[k].ti = 1
               /\ trace[k - 1].ti = Len(blocks[trace[k - 1].bi].extrinsics)
               /\ \A b \in (trace[k - 1].bi + 1)..(trace[k].bi - 1) :
                    Len(blocks[b].extrinsics) = 0
  /\ \A i, j \in 1..Len(submissions) :
       i < j => Before(submissions[i], submissions[j])
  /\ \A i \in 1..Len(submissions) :
       submissions[i].hash = blocks[submissions[i].bi].extrinsics[submissions[i].ti].hash

\* At most the latest submission call is still awaited, and then migrate
\* stands at the await.
OneCallAtATime ==
  \A i \in 1..Len(submissions) :
    submissions[i].state = "calling" => (i = Len(submissions) /\ pc = "Sending")

\* C7 as claimed: whatever the order of the lines, the blocks are gone
\* through in strictly increasing block number order, the extrinsics of a
\* block in recorded order, one submission call at a time.
C7_StrictOrder ==
  /\ StrictlyIncreasing(Reached)
  /\ RecordedOrder
  /\ OneCallAtATime

\* C7 as amended: the blocks are gone through in non-decreasing block number
\* order, strictly increasing when no two lines carry the same number.
C7_SortedOrder ==
  /\ NonDecreasing(Reached)
  /\ DistinctNumbers(dbFile) => StrictlyIncreasing(Reached)
  /\ Iterated => /\ Len(blocks) = Len(dbFile)
                 /\ \A n \in Numbers(dbFile) :
                      Cardinality({k \in 1..Len(blocks) : blocks[k].number = n}) =
                      Cardinality({k \in 1..Len(dbFile) : dbFile[k].number = n})
  /\ RecordedOrder
  /\ OneCallAtATime

\* A file whose lines are out of order, with submissions made for two blocks.
C7_Witness ==
  /\ Len(dbFile) = 3
  /\ dbFile[1].number > dbFile[2].number
  /\ dbFile[2].number > dbFile[3].number
  /\ \E i, j \in 1..Len(submissions) :
       /\ i < j
       /\ submissions[i].number < submissions[j].number
       /\ submissions[j].state = "subscribed"

\* C8: unsubscribe is called at most once for a submission, by the handler
\* run that sees the finalized status and by no run that sees another status.
C8_UnsubscribeOnFinalized ==
  \A i \in 1..Len(submissions) :
    LET s == submissions[i] IN
      /\ s.unsubCalls <= 1
      /\ s.unsubCalls = 1 <=> "finalized" \in s.seen
      /\ s.unsubAt \subseteq {"finalized"}
      /\ s.state = "unsubscribed" <=> s.unsubCalls = 1

\* A submission seen in a block, then finalized, and unsubscribed once.
C8_Witness ==
  \E i \in 1..Len(submissions) :
    /\ submissions[i].seen = {"inBlock", "finalized"}
    /\ submissions[i].unsubCalls = 1

\* C9: a subscription whose status stream has ended, finalized or not, has
\* been released.
C9_AlwaysReleased ==
  \A i \in 1..Len(submissions) :
    submissions[i].status \in TerminalStatuses => submissions[i].unsubCalls > 0

Recorded(s) == blocks[s.bi].extrinsics[s.ti]

\* The sudo pallet's plain authorization envelope, sudo.sudo(call).
IsSudo(call) ==
  /\ call.section = "sudo"
  /\ call.method = "sudo"
  /\ Len(call.args) = 1

\* An act-as envelope around the rewrapped call of record x.
IsSudoAsOf(call, x) ==
  /\ call.section = "sudo"
  /\ call.method = "sudoAs"
  /\ Len(call.args) = 2
  /\ call.args[1] = x.signature[1].signer
  /\ call.args[2].section = split(x.method).module
  /\ call.args[2].method = split(x.method).txType

BareClaimAttest(s) ==
  /\ s.path = "unsigned"
  /\ s.call = Tx("claims", "claimAttest", Recorded(s).args)
  /\ s.signedBy = None

BySigner(s) ==
  /\ s.path = "signed"
  /\ Recorded(s).signature # None
  /\ s.signedBy = Some(initializeSigner(suri).address)

\* C10 as claimed: what is submitted for anything but claimAttest is the
\* act-as envelope wrapped again in an authorization envelope.
C10_DoubleEnvelope ==
  \A i \in 1..Len(submissions) :
    LET s == submissions[i] IN
      IF IsUnsigned(split(Recorded(s).method).txType)
      THEN BareClaimAttest(s)
      ELSE /\ BySigner(s)
           /\ IsSudo(s.call)
           /\ IsSudoAsOf(s.call.args[1], Recorded(s))

\* C10 as amended: what is submitted for anything but claimAttest is the
\* sudoAs envelope itself, naming the recorded signer, around the rewrapped
\* call, signed by the migration signer; claimAttest goes out bare.
C10_SudoAsEnvelope ==
  \A i \in 1..Len(submissions) :
    LET s == submissions[i] IN
      IF IsUnsigned(split(Recorded(s).method).txType)
      THEN BareClaimAttest(s)
      ELSE BySigner(s) /\ IsSudoAsOf(s.call, Recorded(s))

\* A run that sent a claimAttest bare and a batch inside sudoAs.
C10_Witness ==
  /\ \E i \in 1..Len(submissions) :
       submissions[i].path = "unsigned" /\ submissions[i].state = "subscribed"
  /\ \E i \in 1..Len(submissions) :
       /\ submissions[i].state = "subscribed"
       /\ submissions[i].call.method = "sudoAs"
       /\ submissions[i].call.args[2].method = "batch"

\* ------------------------------------------------------- skipped extrinsics
\* The entries of a history (submissions, resolverCalls, proposals) that are
\* about the extrinsic a trace entry is about.
About(history, d) ==
  { k \in 1..Len(history) : history[k].bi = d.bi /\ history[k].ti = d.ti }

Untouched(d) ==
  /\ d.nonce = None
  /\ About(resolverCalls, d) = {}
  /\ About(proposals, d) = {}
  /\ About(submissions, d) = {}

\* The step migrate takes from an extrinsic it skips: on to the next
\* extrinsic of the block, with nothing resolved, nothing submitted and the
\* count of signed extrinsics where it was.
SkipsAs(path) ==
  /\ index' = index
  /\ Len(submissions') = Len(submissions)
  /\ constructed' = constructed
  /\ pc' = "Iterating"
  /\ trace' # trace =>
       /\ trace' = Append(trace, Decided(path, None))
       /\ bi' = bi
       /\ ti' = ti + 1

OnIgnoreList(x) ==
  x.method \in { <<"timestamp", "set">>, <<"finalityTracker", "finalHint">> }

\* C11: an extrinsic whose method is on the ignore list causes no call of
\* createCall and no submission and leaves index where it is; migrate logs
\* nothing but the skip and goes on with the extrinsic after it.
C11_IgnoredSkipped ==
  /\ [](\A k \in 1..Len(trace) :
          OnIgnoreList(Recorded(trace[k])) =>
            trace[k].path = "ignored" /\ Untouched(trace[k]))
  /\ [][(AtExtrinsic /\ OnIgnoreList(extrinsic)) => SkipsAs("ignored")]_vars

\* A run that submits has skipped an ignored extrinsic and gone on to the
\* extrinsic after it.
C11_Witness ==
  /\ ~dry
  /\ Len(submissions) > 0
  /\ \E k \in 1..Len(trace) :
       /\ k < Len(trace)
       /\ trace[k].path = "ignored"
       /\ OnIgnoreList(Recorded(trace[k]))

CarriesCode(x) ==
  /\ x.method[2] = "sudoUncheckedWeight"
  /\ "code" \in DOMAIN x.args[1].args

\* C12: a sudoUncheckedWeight extrinsic whose nested call carries code is
\* never handed to createCall and never submitted, in a dry run and in a live
\* one alike; migrate logs the skip and goes on.
C12_UpgradeSkipped ==
  /\ [](\A k \in 1..Len(trace) :
          CarriesCode(Recorded(trace[k])) =>
            trace[k].path = "upgrade" /\ Untouched(trace[k]))
  /\ [][(AtExtrinsic /\ CarriesCode(extrinsic)) => SkipsAs("upgrade")]_vars

\* A live run has skipped a runtime upgrade and submitted the extrinsic
\* recorded after it.
C12_Witness ==
  /\ ~dry
  /\ \E k \in 1..Len(trace) :
       /\ k < Len(trace)
       /\ trace[k].path = "upgrade"
       /\ CarriesCode(Recorded(trace[k]))
       /\ About(submissions, trace[k + 1]) # {}

\* ---------------------------------------------------------------- resolver
\* The methods createCall has a case for.
Supported ==
  { "killStorage", "setStorage", "bond", "nominate", "setController", "setKeys",
    "validate", "forceTransfer", "transfer", "proxy", "sudo", "batch",
    "anonymous" }

MethodOf(details) == findMetaCall(details.callIndex).method

\* The method of the call details and of all call details nested in them, by
\* way of proxy, sudo and batch, is a supported one.
RECURSIVE AllSupported(_)
AllSupported(details) ==
  /\ MethodOf(details) \in Supported
  /\ MethodOf(details) \in { "proxy", "sudo" } => AllSupported(details.args.call)
  /\ MethodOf(details) = "batch" =>
       \A i \in 1..Len(details.args.calls) : AllSupported(details.args.calls[i])

Resolved == resolution # None

\* C13: createCall returns a call exactly when the method of the call details
\* and of every nested call details is one it has a case for; if not it throws
\* the unknown-call error and returns no call.
C13_ResolvesIffSupported ==
  Resolved =>
    /\ resolution[1].ok <=> AllSupported(descriptor)
    /\ resolution[1].ok => resolution[1].call # None
    /\ ~resolution[1].ok =>
         resolution[1].error = "UnknownCallError" /\ resolution[1].call = None

\* createCall has thrown for a proxy around a batch whose first call it knows
\* and whose second it does not.
C13_Witness ==
  /\ Resolved
  /\ ~resolution[1].ok
  /\ MethodOf(descriptor) = "proxy"
  /\ MethodOf(descriptor.args.call) = "batch"
  /\ Len(descriptor.args.call.args.calls) = 2
  /\ AllSupported(descriptor.args.call.args.calls[1])
  /\ ~AllSupported(descriptor.args.call.args.calls[2])

\* The call is the call of the details' method, and the calls in it stand
\* where the nested call details stand, each the call of its details.
RECURSIVE Mirrors(_, _)
Mirrors(call, details) ==
  /\ call.section = findMetaCall(details.callIndex).section
  /\ call.method = MethodOf(details)
  /\ MethodOf(details) = "sudo" => Mirrors(call.args[1], details.args.call)
  /\ MethodOf(details) = "proxy" => Mirrors(call.args[3], details.args.call)
  /\ MethodOf(details) = "batch" =>
       /\ Len(call.args) = 1
       /\ Len(call.args[1]) = Len(details.args.calls)
       /\ \A i \in 1..Len(details.args.calls) :
            Mirrors(call.args[1][i], details.args.calls[i])

\* C14: createCall of a batch of n nested call details is one batch call of
\* exactly n calls, the i-th of them what createCall gives for the i-th
\* nested call details, and so on down the nesting.
C14_BatchStructure ==
  (Resolved /\ resolution[1].ok) =>
    /\ Mirrors(resolution[1].call, descriptor)
    /\ MethodOf(descriptor) = "batch" =>
         LET nested == descriptor.args.calls
             calls  == resolution[1].call.args[1]
         IN /\ Len(calls) = Len(nested)
            /\ \A i \in 1..Len(nested) :
                 createCall(nested[i]) = Ok(calls[i])

\* createCall has resolved a batch of three different call details, one of
\* them wrapped in sudo.
C14_Witness ==
  /\ Resolved
  /\ resolution[1].ok
  /\ MethodOf(descriptor) = "batch"
  /\ Len(descriptor.args.calls) = 3
  /\ Cardinality({ descriptor.args.calls[i] : i \in 1..3 }) = 3
  /\ \E i \in 1..3 : MethodOf(descriptor.args.calls[i]) = "sudo"

\* ---------------------------------------------------------------- no retry
\* C15: no extrinsic of the log is submitted twice in a run: a submission
\* that is rejected, dropped or never finalized is not made again, and no
\* extrinsic is looked at again once migrate is past it.
C15_AtMostOnce ==
  /\ \A i, j \in 1..Len(submissions) :
       (submissions[i].bi = submissions[j].bi /\ submissions[i].ti = submissions[j].ti)
         => i = j
  /\ \A i, j \in 1..Len(trace) :
       (trace[i].bi = trace[j].bi /\ trace[i].ti = trace[j].ti) => i = j
  /\ \A i \in 1..Len(submissions) :
       submissions[i].state = "rejected" => i = Len(submissions)

\* A run has ended on a rejected submission after one whose extrinsic the
\* node dropped, each made once.
C15_Witness ==
  /\ pc = "Aborted"
  /\ Len(submissions) >= 2
  /\ submissions[Len(submissions)].state = "rejected"
  /\ \E i \in 1..Len(submissions) : submissions[i].status = "dropped"

\* ------------------------------------------------------------------ pacing
\* The blocks whose extrinsics migrate is through with.
Finished ==
  { b \in 1..Len(blocks) : b < bi \/ (b = bi /\ pc = "Draining") }

\* A submission call of block b has returned.
SubmittedIn(b) ==
  \E i \in 1..Len(submissions) :
    submissions[i].bi = b /\ submissions[i].state \in { "subscribed", "unsubscribed" }

SleptAfter(b) == \E k \in 1..Len(slept) : slept[k] = b

\* C16: with trickle, migrate sleeps after a block exactly when a submission
\* was made in that block; without trickle it never sleeps.
C16_PacedPerBlock ==
  /\ \A b \in Finished : SleptAfter(b) <=> (trickle /\ SubmittedIn(b))
  /\ ~trickle => slept = <<>>

\* ------------------------------------------------------------- dry and live
\* The places of the extrinsics of a log, block after block.
RECURSIVE Places(_, _)
Places(bs, b) ==
  IF b > Len(bs) THEN <<>>
  ELSE [t \in 1..Len(bs[b].extrinsics) |-> [bi |-> b, ti |-> t]] \o Places(bs, b + 1)

\* What is to happen to the extrinsics at the given places, whether the run
\* is dry or live, with idx signed extrinsics gone before: the path each one
\* takes, the nonce it is given and the proposal constructed for it, up to the
\* first extrinsic that ends the run.
RECURSIVE Rehearsal(_, _, _, _)
Rehearsal(bs, start, places, idx) ==
  IF places = <<>> THEN <<>>
  ELSE LET at   == Head(places)
           x    == bs[at.bi].extrinsics[at.ti]
           plan == Proposal(x.method[1], x.method[2], x.args)
           Step(path, nonce, prop) ==
             [bi |-> at.bi, ti |-> at.ti, path |-> path, nonce |-> nonce,
              proposal |-> prop]
       IN CASE OnIgnoreList(x) ->
                 << Step("ignored", None, None) >>
                   \o Rehearsal(bs, start, Tail(places), idx)
            [] ~OnIgnoreList(x) /\ CarriesCode(x) ->
                 << Step("upgrade", None, None) >>
                   \o Rehearsal(bs, start, Tail(places), idx)
            [] OTHER ->
                 IF x.method[2] = "claimAttest"
                 THEN << Step("unsigned", None, None) >>
                        \o Rehearsal(bs, start, Tail(places), idx)
                 ELSE IF x.signature = None
                 THEN << Step("nosignature", None, None) >>
                 ELSE IF ~plan.ok
                 THEN << Step("unknown", Some(start + idx), None) >>
                 ELSE << Step("signed", Some(start + idx), Some(plan.call)) >>
                        \o Rehearsal(bs, start, Tail(places), idx + 1)

\* What the run did with the k-th extrinsic it looked at; the stub of a dry
\* run stands for the unsigned submission of a live one.
Observed(k) ==
  LET d  == trace[k]
      js == About(proposals, d)
  IN [bi |-> d.bi, ti |-> d.ti,
      path |-> IF d.path = "stub" THEN "unsigned" ELSE d.path,
      nonce |-> d.nonce,
      proposal |-> IF js = {} THEN None
                   ELSE Some(proposals[CHOOSE j \in js : TRUE].proposal)]

SignedSoFar == Cardinality({ k \in 1..Len(trace) : trace[k].path = "signed" })

InLoops ==
  \/ pc \in { "Iterating", "Sending", "Draining", "Done" }
  \/ pc = "Aborted" /\ error.kind \in { "UnknownCallError", "TypeError", "SubmissionError" }

\* C17: a dry run and a live run of the same log with the same signer take
\* every extrinsic the same way: the same proposal constructed, the same nonce
\* computed, index advanced alike, the unknown-call error thrown at the same
\* extrinsic; a dry run makes no submission, and only a rejected submission
\* ends a live run where the dry run goes on.
C17_DryRehearsesLive ==
  InLoops =>
    LET plan == Rehearsal(blocks, startingNonce, Places(blocks, 1), 0) IN
    /\ Len(trace) <= Len(plan)
    /\ \A k \in 1..Len(trace) : Observed(k) = plan[k]
    /\ pc = "Iterating" => index = SignedSoFar
    /\ error.kind = "UnknownCallError" =>
         Len(trace) = Len(plan) /\ plan[Len(plan)].path = "unknown"
    /\ (pc = "Done" \/ (pc = "Aborted" /\ error.kind # "SubmissionError")) =>
         Len(trace) = Len(plan)
    /\ dry => submissions = <<>> /\ error.kind # "SubmissionError"

\* A dry run has constructed proposals, counted them and stopped at the
\* extrinsic whose nested call createCall does not know.
C17_Witness ==
  /\ dry
  /\ pc = "Aborted"
  /\ error.kind = "UnknownCallError"
  /\ index >= 2
  /\ Len(proposals) = index
  /\ \E k \in 1..Len(trace) : trace[k].path = "stub"

\* -------------------------------------------------------------- termination
Terminal == pc \in { "Done", "Aborted" }

\* C18: with every awaited call returning, migrate ends, returning or
\* throwing, whatever the node reports of the submitted extrinsics and
\* whether it reports anything: until it ends, migrate has a step to take
\* that waits for no status.
C18_Terminates ==
  /\ <>Terminal
  /\ [](~Terminal => ENABLED Migrate)

\* migrate has returned with every submission of the log made and none of
\* them reported finalized.
C18_Witness ==
  /\ pc = "Done"
  /\ Len(submissions) >= 2
  /\ Len(trace) = Len(Places(blocks, 1))
  /\ \A i \in 1..Len(submissions) : "finalized" \notin submissions[i].seen

Unsignable(x) ==
  /\ x.signature = None
  /\ ~OnIgnoreList(x)
  /\ ~CarriesCode(x)
  /\ x.method[2] # "claimAttest"

\* C20: an extrinsic recorded without a signature is submitted only if it is
\* a claimAttest; any other one that is not skipped ends the run with nothing
\* resolved, no proposal constructed and nothing submitted for it; and what
\* the signed path submits is a sudoAs of the signer in the extrinsic's
\* signature.
C20_SignatureRequired ==
  /\ \A i \in 1..Len(submissions) :
       LET s == submissions[i]
           x == Recorded(s)
       IN /\ x.signature = None => x.method[2] = "claimAttest" /\ s.path = "unsigned"
          /\ s.path = "signed" =>
               /\ x.signature # None
               /\ s.call.section = "sudo"
               /\ s.call.method = "sudoAs"
               /\ s.call.args[1] = x.signature[1].signer
  /\ \A k \in 1..Len(trace) :
       Unsignable(Recorded(trace[k])) =>
         /\ trace[k].path = "nosignature"
         /\ Untouched(trace[k])
         /\ k = Len(trace)
         /\ pc = "Aborted"
         /\ error.kind = "TypeError"

\* A live run that has submitted signed extrinsics has ended at an extrinsic
\* recorded without a signature.
C20_Witness ==
  /\ ~dry
  /\ pc = "Aborted"
  /\ error.kind = "TypeError"
  /\ Len(trace) > 0
  /\ Unsignable(Recorded(trace[Len(trace)]))
  /\ \E i \in 1..Len(submissions) : submissions[i].path = "signed"

====
